---------------------------- MODULE Spec2Model ----------------------------
(***************************************************************************)
(* Model of tg_graph's core: compute_median_delta and build_graph          *)
(* (graph_builder.py), the aggregators, compute_metrics and                *)
(* _simple_pagerank (metrics.py), and the upload handlers (bot.py).        *)
(*                                                                         *)
(* Representation                                                          *)
(*  - A Python str is a sequence of one-character strings, so that         *)
(*    lower(), split(), startswith(), rstrip() and lstrip() are computed   *)
(*    character by character.  None is the one-element sequence <<"None">>,*)
(*    which no str equals (every element of a str is a single character).  *)
(*  - Optional[int] reply_to: 0 stands for None (both are falsy and no     *)
(*    message id is 0).                                                    *)
(*  - Weights are in tenths (1.0 -> 10); time deltas and the median are in *)
(*    half seconds, so the mean of two whole-second deltas is an integer.  *)
(*  - A MultiDiGraph is [nodes, edges]: the node set and the sequence of   *)
(*    parallel edges [u, v, weight] in insertion order.                    *)
(***************************************************************************)
EXTENDS Integers, Sequences, FiniteSets, TLC

VARIABLES
    messages,       \* the message list handed to the function
    user_map,       \* id -> name catalog
    username_map,   \* handle -> name catalog
    median_delta,   \* build_graph's median_delta argument (half seconds)
    pc,             \* position of the running function
    idx,            \* number of messages the for-loop has consumed
    last_message,   \* build_graph: index of last_message in messages, 0 = None
    G,              \* build_graph: the graph under construction / returned
    deltas,         \* compute_median_delta: the collected sample
    prev_dt,        \* compute_median_delta: prev_dt (NoDt = None)
    median,         \* compute_median_delta: the returned value (half seconds)
    strengths,      \* compute_interaction_strengths: the returned map
    totals,         \* compute_node_strengths: the returned map
    returned_maps,  \* the maps the two aggregators returned, call by call
    metrics,        \* compute_metrics: the metrics dict
    rank,           \* _simple_pagerank: rank
    prev_rank,      \* _simple_pagerank: prev_rank
    iterations,     \* _simple_pagerank: iterations of the loop so far
    max_iter,       \* _simple_pagerank: the max_iter argument
    tasks,          \* bot: per upload, where its handler / task stands
    running,        \* bot: the upload whose coroutine the loop runs, 0 = none
    files,          \* bot: the files of the temporary directories
    sent            \* bot: the documents sent back, per chat

\* the state of metrics.py beyond compute_interaction_strengths
metricsVars == <<totals, returned_maps, metrics, rank, prev_rank, iterations,
                 max_iter>>

\* the state of bot.py
botVars == <<tasks, running, files, sent>>

vars == <<messages, user_map, username_map, median_delta, pc, idx,
          last_message, G, deltas, prev_dt, median, strengths,
          metricsVars, botVars>>

---------------------------------------------------------------------------
(* Python values *)

None == <<"None">>

Falsy(x) == x = None \/ x = <<>>

Truthy(x) == ~Falsy(x)

\* Python's `a or b`
Or(a, b) == IF Truthy(a) THEN a ELSE b

UpperChars == <<"A","B","C","D","E","F","G","H","I","J","K","L","M",
                "N","O","P","Q","R","S","T","U","V","W","X","Y","Z">>

LowerChars == <<"a","b","c","d","e","f","g","h","i","j","k","l","m",
                "n","o","p","q","r","s","t","u","v","w","x","y","z">>

LowerChar(c) ==
    IF \E k \in DOMAIN UpperChars : UpperChars[k] = c
    THEN LowerChars[CHOOSE k \in DOMAIN UpperChars : UpperChars[k] = c]
    ELSE c

\* str.lower()
Lower(s) == [k \in DOMAIN s |-> LowerChar(s[k])]

\* `c in s` for a one-character c
Contains(s, c) == \E k \in DOMAIN s : s[k] = c

\* str.startswith(c) for a one-character c
StartsWith(s, c) == Len(s) >= 1 /\ s[1] = c

Whitespace == {" ", "\t", "\n"}

RECURSIVE SplitFrom(_, _, _)
SplitFrom(s, k, cur) ==
    IF k > Len(s)
    THEN IF cur = <<>> THEN <<>> ELSE <<cur>>
    ELSE IF s[k] \in Whitespace
         THEN IF cur = <<>> THEN SplitFrom(s, k + 1, <<>>)
                            ELSE <<cur>> \o SplitFrom(s, k + 1, <<>>)
         ELSE SplitFrom(s, k + 1, Append(cur, s[k]))

\* str.split(): the whitespace-delimited words, empty words dropped
Split(s) == SplitFrom(s, 1, <<>>)

RECURSIVE RStrip(_, _)
RStrip(s, chars) ==
    IF Len(s) > 0 /\ s[Len(s)] \in chars
    THEN RStrip(SubSeq(s, 1, Len(s) - 1), chars)
    ELSE s

RECURSIVE LStrip(_, _)
LStrip(s, chars) ==
    IF Len(s) > 0 /\ s[1] \in chars THEN LStrip(Tail(s), chars) ELSE s

\* dict.get(k) and dict.get(k, default)
Get(map, k) == IF k \in DOMAIN map THEN map[k] ELSE None

GetOr(map, k, default) == IF k \in DOMAIN map THEN map[k] ELSE default

---------------------------------------------------------------------------
(* Strings of the model *)

S_Alice == <<"A","l","i","c","e">>

S_Bob == <<"B","o","b">>

S_bob == <<"b","o","b">>

S_user == <<"u","s","e","r">>

S_User == <<"U","s","e","r">>

S_Unknown == <<"U","n","k","n","o","w","n">>

S_u1 == <<"u","1">>

S_at_bob == <<"@","b","o","b">>

T_hello == <<"h","e","l","l","o">>

T_hi_at_Alice == <<"h","i"," ","@","A","l","i","c","e">>

T_at_at_User == <<"@"," ","@","U","s","e","r">>

T_at_bob_dot == <<"@","b","o","b",".">>

---------------------------------------------------------------------------
(* Timestamps.  Message.date is None, "", a string that is not ISO-8601,  *)
(* an ISO-8601 string without offset, or one ending in "Z"; t is the time *)
(* it denotes, in seconds.                                                 *)

DateNone == [kind |-> "none", t |-> 0]

DateBad == [kind |-> "bad", t |-> 0]

DateNaive(t) == [kind |-> "naive", t |-> t]

DateZ(t) == [kind |-> "z", t |-> t]

\* a datetime: None, naive, or aware (tzinfo set)
NoDt == [kind |-> "none", t |-> 0]

\* _parse_date: falsy -> None; "Z" is rewritten to "+00:00"; fromisoformat's
\* ValueError -> None
ParseDate(value) ==
    CASE value.kind \in {"none", "empty"} -> NoDt
      [] value.kind = "naive" -> [kind |-> "naive", t |-> value.t]
      [] value.kind = "z" -> [kind |-> "aware", t |-> value.t]
      [] OTHER -> NoDt

IsDt(dt) == dt.kind # "none"

\* datetime - datetime raises TypeError for one naive and one aware operand
CanSubtract(a, b) == a.kind = b.kind

\* (a - b).total_seconds(), in half seconds
TotalSeconds2(a, b) == 2 * (a.t - b.t)

---------------------------------------------------------------------------
(* References to a participant: Message.forwarded_from and a reaction's   *)
(* 'actor' are None, a str, or a dict.                                    *)

NoRef == [tag |-> "none", s |-> None, id |-> None, from_id |-> None]

StrRef(s) == [tag |-> "str", s |-> s, id |-> None, from_id |-> None]

\* a non-empty dict; id / from_id are None when the key is missing
DictRef(id, from_id) == [tag |-> "dict", s |-> None, id |-> id, from_id |-> from_id]

RefTruthy(r) == (r.tag = "str" /\ r.s # <<>>) \/ r.tag = "dict"

\* str(dict): the repr of a dict starts with "{" and ends with "}"
DictRepr(r) == <<"{">> \o (IF r.id = None THEN <<>> ELSE r.id)
                       \o (IF r.from_id = None THEN <<>> ELSE r.from_id) \o <<"}">>

\* lines 100-103 and 111-114
RefKey(r) ==
    IF r.tag = "dict"
    THEN Or(r.id, Or(r.from_id, DictRepr(r)))
    ELSE r.s

Reaction(actor) == [actor |-> actor]

Msg(id, date, from_id, from_name, text, reply_to, forwarded_from, reactions) ==
    [id |-> id, date |-> date, from_id |-> from_id, from_name |-> from_name,
     text |-> text, reply_to |-> reply_to, forwarded_from |-> forwarded_from,
     reactions |-> reactions]

---------------------------------------------------------------------------
(* networkx.MultiDiGraph *)

EmptyGraph == [nodes |-> {}, edges |-> <<>>]

Edge(u, v, w) == [u |-> u, v |-> v, weight |-> w]

\* AddEdge of a graph without parallel edges: an edge that is there already
\* is not added again
AddEdge_Merged(g, u, v, w) ==
    IF \E k \in DOMAIN g.edges : g.edges[k] = Edge(u, v, w)
    THEN g
    ELSE [nodes |-> g.nodes \cup {u, v}, edges |-> Append(g.edges, Edge(u, v, w))]

AddEdge(g, u, v, w) ==
    [nodes |-> g.nodes \cup {u, v}, edges |-> Append(g.edges, Edge(u, v, w))]

\* G.degree(n): in-degree plus out-degree, a self-loop counted twice
Degree(g, n) ==
    Cardinality({k \in DOMAIN g.edges : g.edges[k].u = n})
    + Cardinality({k \in DOMAIN g.edges : g.edges[k].v = n})

RECURSIVE FilterEdges(_, _)
FilterEdges(es, gone) ==
    IF es = <<>> THEN <<>>
    ELSE IF Head(es).u \in gone \/ Head(es).v \in gone
         THEN FilterEdges(Tail(es), gone)
         ELSE <<Head(es)>> \o FilterEdges(Tail(es), gone)

\* G.remove_nodes_from(ns): the nodes go, and every edge incident to one
RemoveNodesFrom(g, ns) ==
    [nodes |-> g.nodes \ ns, edges |-> FilterEdges(g.edges, ns)]

\* INTERACTION_WEIGHTS, in tenths
W_reply == 10

W_mention == 5

W_forward == 7

W_reaction == 3

W_temporal == 2

---------------------------------------------------------------------------
(* build_graph: the pieces of one loop iteration *)

\* msg_map = {m.id: m for m in messages}: of two messages with one id the
\* later one stays
HasMsg(id) == \E k \in DOMAIN messages : messages[k].id = id

MsgMapGet(id) ==
    messages[CHOOSE k \in DOMAIN messages :
                /\ messages[k].id = id
                /\ \A j \in DOMAIN messages : messages[j].id = id => j <= k]

\* the test of lines 67, 79-83 and 125
NeedsLookup(name) == Falsy(name) \/ Lower(name) = S_user \/ name = S_Unknown

\* user_map.get(str(id)) or username_map.get(str(id))
CatalogName(id) == Or(Get(user_map, id), Get(username_map, id))

\* lines 66-71: the author of the message being processed
Author(m) ==
    IF NeedsLookup(m.from_name) /\ Truthy(m.from_id)
    THEN CatalogName(m.from_id)
    ELSE m.from_name

\* lines 78-87: the author of the replied-to message
ReplyTarget(target_msg) ==
    IF NeedsLookup(target_msg.from_name) /\ Truthy(target_msg.from_id)
    THEN CatalogName(target_msg.from_id)
    ELSE target_msg.from_name

\* lines 124-129: the author of last_message
PrevAuthor(lm) ==
    IF NeedsLookup(lm.from_name) /\ Truthy(lm.from_id)
    THEN CatalogName(lm.from_id)
    ELSE lm.from_name

\* ReplyEdge without the test `target != author`
ReplyEdge_SelfLoop(g, m, author) ==
    IF m.reply_to # 0 /\ HasMsg(m.reply_to)
    THEN LET target == ReplyTarget(MsgMapGet(m.reply_to))
         IN  IF Truthy(target) /\ Lower(target) # S_user
             THEN AddEdge(g, author, target, W_reply)
             ELSE g
    ELSE g

\* ReplyEdge that takes last_message for a reply_to no message has
ReplyEdge_DanglingToLast(g, m, author) ==
    IF m.reply_to # 0 /\ (HasMsg(m.reply_to) \/ last_message # 0)
    THEN LET target == ReplyTarget(IF HasMsg(m.reply_to)
                                   THEN MsgMapGet(m.reply_to)
                                   ELSE messages[last_message])
         IN  IF Truthy(target) /\ Lower(target) # S_user /\ target # author
             THEN AddEdge(g, author, target, W_reply)
             ELSE g
    ELSE g

\* lines 75-89
ReplyEdge(g, m, author) ==
    IF m.reply_to # 0 /\ HasMsg(m.reply_to)
    THEN LET target == ReplyTarget(MsgMapGet(m.reply_to))
         IN  IF Truthy(target) /\ Lower(target) # S_user /\ target # author
             THEN AddEdge(g, author, target, W_reply)
             ELSE g
    ELSE g

MentionPunctuation == {".", ",", "!", "?", ":", ";"}

\* lines 94-95
MentionTarget(word) ==
    LET nick == RStrip(Tail(word), MentionPunctuation)
    IN  GetOr(username_map, nick, nick)

\* lines 93-97: one word of the text
OneWord(g, word, author) ==
    IF StartsWith(word, "@")
    THEN LET target == MentionTarget(word)
         IN  IF Lower(target) # S_user /\ target # author
             THEN AddEdge(g, author, target, W_mention)
             ELSE g
    ELSE g

RECURSIVE MentionWords(_, _, _)
MentionWords(g, words, author) ==
    IF words = <<>> THEN g
    ELSE MentionWords(OneWord(g, Head(words), author), Tail(words), author)

\* lines 90-97
MentionEdges(g, m, author) ==
    IF Contains(m.text, "@") THEN MentionWords(g, Split(m.text), author) ELSE g

\* RefName that falls back to the reference itself
RefName_KeyFallback(key) ==
    Or(Get(user_map, key), Or(Get(username_map, LStrip(key, {"@"})), key))

\* lines 104 and 115
RefName(key) ==
    Or(Get(user_map, key), Or(Get(username_map, LStrip(key, {"@"})), S_Unknown))

\* lines 98-106
ForwardEdge(g, m, author) ==
    IF RefTruthy(m.forwarded_from)
    THEN LET target == RefName(RefKey(m.forwarded_from))
         IN  IF Lower(target) # S_user /\ target # S_Unknown /\ target # author
             THEN AddEdge(g, author, target, W_forward)
             ELSE g
    ELSE g

\* OneReaction with the edge from the author to the actor
OneReaction_Reversed(g, reaction, author) ==
    IF RefTruthy(reaction.actor)
    THEN LET actor_name == RefName(RefKey(reaction.actor))
         IN  IF /\ Lower(actor_name) # S_user
                /\ actor_name # S_Unknown
                /\ actor_name # author
             THEN AddEdge(g, author, actor_name, W_reaction)
             ELSE g
    ELSE g

\* lines 109-117: one reaction record
OneReaction(g, reaction, author) ==
    IF RefTruthy(reaction.actor)
    THEN LET actor_name == RefName(RefKey(reaction.actor))
         IN  IF /\ Lower(actor_name) # S_user
                /\ actor_name # S_Unknown
                /\ actor_name # author
             THEN AddEdge(g, actor_name, author, W_reaction)
             ELSE g
    ELSE g

RECURSIVE ReactionList(_, _, _)
ReactionList(g, reactions, author) ==
    IF reactions = <<>> THEN g
    ELSE ReactionList(OneReaction(g, Head(reactions), author),
                      Tail(reactions), author)

\* lines 107-117
ReactionEdges(g, m, author) == ReactionList(g, m.reactions, author)

\* TemporalReached without the test `median_delta > 0`
TemporalReached_NoMedianGate(m) ==
    /\ last_message # 0
    /\ IsDt(ParseDate(m.date))
    /\ IsDt(ParseDate(messages[last_message].date))

\* line 118-121: the subtraction of line 122 is reached
TemporalReached(m) ==
    /\ last_message # 0
    /\ median_delta > 0
    /\ IsDt(ParseDate(m.date))
    /\ IsDt(ParseDate(messages[last_message].date))

\* line 122 raises TypeError
TemporalRaises(m) ==
    /\ TemporalReached(m)
    /\ ~CanSubtract(ParseDate(m.date), ParseDate(messages[last_message].date))

\* lines 118-135
TemporalEdge(g, m, author) ==
    IF TemporalReached(m)
    THEN LET delta == TotalSeconds2(ParseDate(m.date),
                                    ParseDate(messages[last_message].date))
             prev_author == PrevAuthor(messages[last_message])
         IN  IF /\ 0 <= delta
                /\ delta <= median_delta
                /\ Truthy(prev_author)
                /\ Lower(prev_author) # S_user
                /\ prev_author # author
             THEN AddEdge(g, author, prev_author, W_temporal)
             ELSE g
    ELSE g

\* lines 75-117: the graph when the temporal block is entered
BeforeTemporal(g, m, author) ==
    ReactionEdges(ForwardEdge(MentionEdges(ReplyEdge(g, m, author), m, author),
                              m, author), m, author)

---------------------------------------------------------------------------
(* build_graph: the actions *)

\* lines 65-136, one iteration of `for m in messages`
BuildStep ==
    /\ pc = "build"
    /\ idx < Len(messages)
    /\ LET m == messages[idx + 1]
           author == Author(m)
       IN  IF Falsy(author)
           THEN /\ G' = G
                /\ pc' = pc
           ELSE IF TemporalRaises(m)
                THEN /\ G' = BeforeTemporal(G, m, author)
                     /\ pc' = "raised"
                ELSE /\ G' = TemporalEdge(BeforeTemporal(G, m, author), m, author)
                     /\ pc' = pc
    /\ last_message' = idx + 1
    /\ idx' = idx + 1
    /\ UNCHANGED <<messages, user_map, username_map, median_delta, deltas,
                   prev_dt, median, strengths,
                   metricsVars, botVars>>

\* lines 138-142
ToRemove(g) == {n \in g.nodes : Degree(g, n) = 0 \/ Falsy(n) \/ n = S_Unknown}

\* lines 137-144: the loop is over; prune and return
Prune ==
    /\ pc = "build"
    /\ idx = Len(messages)
    /\ G' = RemoveNodesFrom(G, ToRemove(G))
    /\ pc' = "returned"
    /\ UNCHANGED <<messages, user_map, username_map, median_delta, idx,
                   last_message, deltas, prev_dt, median, strengths,
                   metricsVars, botVars>>

---------------------------------------------------------------------------
(* compute_median_delta *)

\* DeltaBase that falls back to prev_dt when the replied-to message has no
\* parseable timestamp
DeltaBase_Fallback(m) ==
    IF /\ m.reply_to # 0
       /\ HasMsg(m.reply_to)
       /\ IsDt(ParseDate(MsgMapGet(m.reply_to).date))
    THEN ParseDate(MsgMapGet(m.reply_to).date)
    ELSE prev_dt

\* lines 34-36, 40: the datetime the delta of m is taken against: the
\* replied-to message's when reply_to is the id of a message, else prev_dt
DeltaBase(m) ==
    IF m.reply_to # 0 /\ HasMsg(m.reply_to)
    THEN ParseDate(MsgMapGet(m.reply_to).date)
    ELSE prev_dt

\* lines 29-44, one iteration of `for m in messages`
MedianStep ==
    /\ pc = "median"
    /\ idx < Len(messages)
    /\ LET m == messages[idx + 1]
           cur_dt == ParseDate(m.date)
           base == DeltaBase(m)
       IN  IF ~IsDt(cur_dt)
           THEN /\ prev_dt' = cur_dt
                /\ deltas' = deltas
                /\ pc' = pc
           ELSE IF IsDt(base) /\ ~CanSubtract(cur_dt, base)
                THEN /\ pc' = "raised"
                     /\ UNCHANGED <<deltas, prev_dt>>
                ELSE /\ deltas' = IF IsDt(base) /\ TotalSeconds2(cur_dt, base) >= 0
                                  THEN Append(deltas, TotalSeconds2(cur_dt, base))
                                  ELSE deltas
                     /\ prev_dt' = cur_dt
                     /\ pc' = pc
    /\ idx' = idx + 1
    /\ UNCHANGED <<messages, user_map, username_map, median_delta,
                   last_message, G, median, strengths,
                   metricsVars, botVars>>

RECURSIVE Insert(_, _)
Insert(x, s) ==
    IF s = <<>> THEN <<x>>
    ELSE IF x <= Head(s) THEN <<x>> \o s
         ELSE <<Head(s)>> \o Insert(x, Tail(s))

RECURSIVE Sort(_)
\* list.sort()
Sort(s) == IF s = <<>> THEN <<>> ELSE Insert(Head(s), Sort(Tail(s)))

\* MiddleOf that returns sorted[mid] for an even length too
MiddleOf_NoMean(sorted) == sorted[Len(sorted) \div 2 + 1]

\* lines 50-53 on the sorted, non-empty list (Python indexes from 0)
MiddleOf(sorted) ==
    LET mid == Len(sorted) \div 2
    IN  IF Len(sorted) % 2 = 1
        THEN sorted[mid + 1]
        ELSE (sorted[mid] + sorted[mid + 1]) \div 2

\* lines 46-53
MedianReturn ==
    /\ pc = "median"
    /\ idx = Len(messages)
    /\ IF deltas = <<>>
       THEN /\ median' = 0
            /\ deltas' = deltas
       ELSE /\ deltas' = Sort(deltas)
            /\ median' = MiddleOf(Sort(deltas))
    /\ pc' = "median_done"
    /\ UNCHANGED <<messages, user_map, username_map, median_delta, idx,
                   last_message, G, prev_dt, strengths,
                   metricsVars, botVars>>

---------------------------------------------------------------------------
(* utils.sanitize_text and metrics.compute_interaction_strengths *)

\* unicodedata.category(ch) starts with "C" (here: Cc)
ControlChars == {"\t", "\n"}

\* unicodedata.category(ch) starts with "S" (ASCII: Sc, Sm, Sk)
SymbolChars == {"$", "+", "<", "=", ">", "|", "~", "^"}

RECURSIVE SanitizeChars(_)
SanitizeChars(s) ==
    IF s = <<>> THEN <<>>
    ELSE LET ch == Head(s)
         IN  IF ch \in ControlChars THEN SanitizeChars(Tail(s))
             ELSE IF ch \in SymbolChars THEN SanitizeChars(Tail(s))
             ELSE IF ch = "$" THEN <<"\\", "$">> \o SanitizeChars(Tail(s))
             ELSE <<ch>> \o SanitizeChars(Tail(s))

\* str.strip()
Strip(s) == LStrip(RStrip(s, Whitespace), Whitespace)

\* utils.sanitize_text (the strings of the model are in NFC already)
SanitizeText(text) == Strip(SanitizeChars(text))

\* float(data.get("weight", 1.0)): an edge without weight counts 1.0
WeightOf(e) == IF "weight" \in DOMAIN e THEN e.weight ELSE 10

\* AddStrength that stores the weight instead of adding it
AddStrength_Overwrite(acc, e) ==
    LET key == <<e.u, e.v>>
    IN  IF SanitizeText(e.u) = <<>> \/ SanitizeText(e.v) = <<>>
        THEN acc
        ELSE [q \in DOMAIN acc \cup {key} |->
                 IF q = key THEN WeightOf(e) ELSE acc[q]]

\* lines 97-100: one edge of G.edges(data=True)
AddStrength(acc, e) ==
    LET key == <<e.u, e.v>>
    IN  IF SanitizeText(e.u) = <<>> \/ SanitizeText(e.v) = <<>>
        THEN acc
        ELSE [q \in DOMAIN acc \cup {key} |->
                 IF q = key
                 THEN (IF key \in DOMAIN acc THEN acc[key] ELSE 0) + WeightOf(e)
                 ELSE acc[q]]

RECURSIVE StrengthsOver(_, _)
StrengthsOver(es, acc) ==
    IF es = <<>> THEN acc
    ELSE StrengthsOver(Tail(es), AddStrength(acc, Head(es)))

EmptyMap == [q \in {} |-> 0]

\* metrics.compute_interaction_strengths
ComputeInteractionStrengths(g) == StrengthsOver(g.edges, EmptyMap)

\* bot.process_document line 76: the strengths of the returned graph
Strengths ==
    /\ pc = "returned"
    /\ strengths' = ComputeInteractionStrengths(G)
    /\ pc' = "done"
    /\ UNCHANGED <<messages, user_map, username_map, median_delta, idx,
                   last_message, G, deltas, prev_dt, median,
                   metricsVars, botVars>>

---------------------------------------------------------------------------
(* Inputs *)

MaxMsgs == 2

Names == {None, S_Alice, S_User, S_Unknown}

Ids == {None, S_u1}

\* the ids of the list, and one id that no message has
ReplyIds == 1..(MaxMsgs + 1)

Texts == {T_hi_at_Alice, T_at_at_User, T_at_bob_dot}

Refs == {StrRef(S_u1), StrRef(S_at_bob), DictRef(None, S_u1), DictRef(None, None)}

ReactionLists == {<<Reaction(StrRef(S_u1))>>,
                  <<Reaction(NoRef), Reaction(DictRef(S_u1, None)),
                    Reaction(StrRef(S_bob))>>}

Dates == {DateBad, DateNaive(0), DateNaive(5), DateNaive(20), DateZ(5)}

\* in half seconds: 0 s and 5 s
Medians == {0, 10}

\* a message that carries nothing but its author
Bare(id, from_id, from_name) ==
    Msg(id, DateNone, from_id, from_name, <<>>, 0, NoRef, <<>>)

\* the message with id `id`: any author, and at most one of a reply link,
\* a text, a forward source, reactions, a timestamp
MessageDomain(id) ==
    UNION {
        {b}
        \cup {[b EXCEPT !.reply_to = r] : r \in ReplyIds}
        \cup {[b EXCEPT !.text = t] : t \in Texts}
        \cup {[b EXCEPT !.forwarded_from = f] : f \in Refs}
        \cup {[b EXCEPT !.reactions = rs] : rs \in ReactionLists}
        \cup {[b EXCEPT !.date = d] : d \in Dates}
        : b \in {Bare(id, i, n) : i \in Ids, n \in Names}}

RECURSIVE MessageLists(_)
MessageLists(n) ==
    IF n = 0 THEN {<<>>}
    ELSE {Append(l, x) : l \in MessageLists(n - 1), x \in MessageDomain(n)}

EmptyCatalog == [k \in {} |-> None]

Catalog1(k, v) == [x \in {k} |-> v]

Catalog2(k1, v1, k2, v2) == [x \in {k1, k2} |-> IF x = k1 THEN v1 ELSE v2]

\* <<user_map, username_map>>
Catalogs ==
    { <<EmptyCatalog, EmptyCatalog>>,
      <<Catalog1(S_u1, S_Alice), Catalog1(S_bob, S_Bob)>>,
      <<EmptyCatalog, Catalog2(S_u1, S_Bob, S_bob, S_Alice)>>,
      <<Catalog1(S_u1, S_user), Catalog1(S_bob, S_Unknown)>> }

\* the three messages of the end-to-end scenario
Scenario ==
    << Msg(1, DateNone, None, S_Alice, T_hello, 0, NoRef, <<>>),
       Msg(2, DateNone, None, S_Bob, T_hi_at_Alice, 1, NoRef, <<>>),
       Msg(3, DateNone, None, S_Alice, <<>>, 2, NoRef, <<>>) >>

\* lists shaped like the scenario: its authors, texts and reply links
ScenarioLists ==
    { [k \in DOMAIN Scenario |->
          Msg(k, DateNone, None, a[k], t[k], r[k], NoRef, <<>>)]
      : a \in [DOMAIN Scenario -> {S_Alice, S_Bob}],
        t \in [DOMAIN Scenario -> {T_hello, T_hi_at_Alice, <<>>}],
        r \in [DOMAIN Scenario -> {0, 1, 2}] }

\* lists one message longer, of messages that carry an author and a
\* timestamp only
TimedLists ==
    { [k \in 1..(MaxMsgs + 1) |->
          Msg(k, d[k], i[k], n[k], <<>>, 0, NoRef, <<>>)]
      : d \in [1..(MaxMsgs + 1) -> {DateNone, DateNaive(0), DateNaive(5)}],
        i \in [1..(MaxMsgs + 1) -> Ids],
        n \in [1..(MaxMsgs + 1) -> {None, S_Alice}] }

MaxTimed == 4

TimedDates == {DateBad, DateNaive(0), DateNaive(10), DateNaive(30), DateZ(10)}

\* lists of up to MaxTimed messages that carry a timestamp each
DatedLists ==
    UNION { { [k \in 1..n |-> Msg(k, d[k], None, S_Alice, <<>>, 0, NoRef, <<>>)]
              : d \in [1..n -> TimedDates] }
            : n \in 0..MaxTimed }

\* the same, and one message of the list may carry a reply link: to another
\* message of the list (earlier or later) or to none
MedianLists ==
    DatedLists
    \cup UNION { { [l EXCEPT ![kr[1]].reply_to = kr[2]]
                   : kr \in {x \in (DOMAIN l) \X (1..(Len(l) + 1)) : x[1] # x[2]} }
                 : l \in DatedLists }

\* metrics.py beyond compute_interaction_strengths is not running
MetricsIdle ==
    /\ totals = EmptyMap
    /\ returned_maps = <<>>
    /\ metrics = EmptyMap
    /\ rank = EmptyMap
    /\ prev_rank = EmptyMap
    /\ iterations = 0
    /\ max_iter = 0

\* no upload is being handled
BotIdle ==
    /\ tasks = <<>>
    /\ running = 0
    /\ files = EmptyMap
    /\ sent = {}

Rest ==
    /\ idx = 0
    /\ last_message = 0
    /\ G = EmptyGraph
    /\ deltas = <<>>
    /\ prev_dt = NoDt
    /\ median = 0
    /\ strengths = EmptyMap
    /\ MetricsIdle
    /\ BotIdle

\* build_graph is entered with any messages, median and catalogs
Init ==
    /\ \/ /\ messages \in UNION {MessageLists(n) : n \in 0..MaxMsgs} \cup TimedLists
          /\ median_delta \in Medians
          /\ \E c \in Catalogs : user_map = c[1] /\ username_map = c[2]
       \/ /\ messages \in ScenarioLists
          /\ median_delta = 0
          /\ user_map = EmptyCatalog
          /\ username_map = EmptyCatalog
    /\ pc = "build"
    /\ Rest

\* compute_median_delta is entered with any messages
InitMedian ==
    /\ messages \in MedianLists
    /\ median_delta = 0
    /\ user_map = EmptyCatalog
    /\ username_map = EmptyCatalog
    /\ pc = "median"
    /\ Rest

NextMedian == MedianStep \/ MedianReturn

SpecMedian == InitMedian /\ [][NextMedian]_vars

Next == BuildStep \/ Prune \/ Strengths

Spec == Init /\ [][Next]_vars

---------------------------------------------------------------------------
(* Vocabulary of the properties *)

\* build_graph has returned G
Returned == pc \in {"returned", "done"}

\* the loop is about to process messages[idx + 1]
Processing == pc = "build" /\ idx < Len(messages)

Cur == messages[idx + 1]

\* the edges one step appends to G
NewEdges == SubSeq(G'.edges, Len(G.edges) + 1, Len(G'.edges))

Weights == {W_reply, W_mention, W_forward, W_reaction, W_temporal}

CatalogValues ==
    {user_map[k] : k \in DOMAIN user_map}
    \cup {username_map[k] : k \in DOMAIN username_map}

\* some edge of g has weight w
HasEdgeOfWeight(g, w) == \E k \in DOMAIN g.edges : g.edges[k].weight = w

\* the raw name is absent or a placeholder, and the author id is absent or
\* in neither catalog
Unresolvable(m) ==
    /\ \/ Falsy(m.from_name)
       \/ Lower(m.from_name) = S_user
       \/ m.from_name = S_Unknown
    /\ \/ Falsy(m.from_id)
       \/ (m.from_id \notin DOMAIN user_map /\ m.from_id \notin DOMAIN username_map)

---------------------------------------------------------------------------
(* C1: every node of the graph build_graph returns has degree >= 1.       *)
C1_NoIsolatedNode ==
    Returned => \A n \in G.nodes : Degree(G, n) >= 1

---------------------------------------------------------------------------
(* C2: every edge of the graph, while it is built and when it is          *)
(* returned, has one of the five weights and two different endpoints; so  *)
(* a reply to a message of the same author and a reaction by the author   *)
(* add no edge.                                                           *)
C2_WeightsAndNoSelfLoop ==
    \A k \in DOMAIN G.edges :
        /\ G.edges[k].weight \in Weights
        /\ G.edges[k].u # G.edges[k].v

\* a graph was returned for a list in which a message replies to a message
\* of its own author and a list in which the author reacts to itself
C2_Witness ==
    /\ Returned
    /\ \/ \E k \in DOMAIN messages :
             /\ Truthy(Author(messages[k]))
             /\ messages[k].reply_to # 0
             /\ messages[k].reply_to # k
             /\ HasMsg(messages[k].reply_to)
             /\ Author(MsgMapGet(messages[k].reply_to)) = Author(messages[k])
             /\ G.edges # <<>>
       \/ \E k \in DOMAIN messages :
             /\ Truthy(Author(messages[k]))
             /\ \E j \in DOMAIN messages[k].reactions :
                   /\ RefTruthy(messages[k].reactions[j].actor)
                   /\ RefName(RefKey(messages[k].reactions[j].actor))
                        = Author(messages[k])

---------------------------------------------------------------------------
(* C3: no node of the returned graph is "", "Unknown" or "user" in any    *)
(* letter case.                                                           *)
C3_NoPlaceholderNode ==
    Returned => \A n \in G.nodes :
                    n # <<>> /\ n # S_Unknown /\ Lower(n) # S_user

---------------------------------------------------------------------------
(* C4: processing a message whose author cannot be resolved adds no edge  *)
(* to the graph.                                                          *)
C4_UnresolvedAddsNoEdge ==
    [][(Processing /\ Unresolvable(Cur)) => NewEdges = <<>>]_vars

---------------------------------------------------------------------------
(* C5: for the three-message scenario with empty catalogs the returned    *)
(* graph has the nodes Alice and Bob and the edges Bob->Alice 1.0,        *)
(* Bob->Alice 0.5, Alice->Bob 1.0, and the strengths are                  *)
(* (Bob,Alice) = 1.5 and (Alice,Bob) = 1.0 and nothing else.              *)
C5_Scenario ==
    (messages = Scenario /\ pc = "done") =>
        /\ G.nodes = {S_Alice, S_Bob}
        /\ G.edges = << Edge(S_Bob, S_Alice, 10), Edge(S_Bob, S_Alice, 5),
                        Edge(S_Alice, S_Bob, 10) >>
        /\ DOMAIN strengths = {<<S_Bob, S_Alice>>, <<S_Alice, S_Bob>>}
        /\ strengths[<<S_Bob, S_Alice>>] = 15
        /\ strengths[<<S_Alice, S_Bob>>] = 10

C5_Witness == messages = Scenario /\ pc = "done"

---------------------------------------------------------------------------
(* C8 as claimed: a reply edge is added only for a reply_to that is the   *)
(* id of a message earlier in the list.                                   *)
C8_ReplyOnlyToEarlier ==
    [][(Processing /\ HasEdgeOfWeight([edges |-> NewEdges], W_reply)) =>
          \E j \in 1..idx : messages[j].id = Cur.reply_to]_vars

(* C8 as amended: a reply edge is added only for a reply_to that is the   *)
(* id of a message of the list, at any position; it goes from the         *)
(* message's author to that message's author; a reply_to that no message  *)
(* has adds no reply edge.                                                *)
C8_ReplyOnlyToListed ==
    [][Processing =>
          \A k \in DOMAIN NewEdges :
              NewEdges[k].weight = W_reply =>
                  /\ Cur.reply_to # 0
                  /\ \E j \in DOMAIN messages :
                        /\ messages[j].id = Cur.reply_to
                        /\ NewEdges[k].u = Author(Cur)
                        /\ NewEdges[k].v = Author(messages[j])]_vars

\* the first message replied to the second, a later one, and the edge is
\* in the returned graph
C8_Witness ==
    /\ Returned
    /\ Len(messages) >= 2
    /\ messages[1].reply_to = messages[2].id
    /\ \E k \in DOMAIN G.edges :
          G.edges[k] = Edge(Author(messages[1]), Author(messages[2]), W_reply)

---------------------------------------------------------------------------
(* C9: an edge of weight 0.3 added while a message is processed goes from *)
(* a catalog name, the actor's, to the message's author; every other edge *)
(* added then starts at the message's author.                             *)
C9_EdgeDirection ==
    [][Processing =>
          \A k \in DOMAIN NewEdges :
              IF NewEdges[k].weight = W_reaction
              THEN /\ NewEdges[k].v = Author(Cur)
                   /\ NewEdges[k].u \in CatalogValues
                   /\ Cur.reactions # <<>>
              ELSE NewEdges[k].u = Author(Cur)]_vars

\* the returned graph holds a reaction edge
C9_Witness == Returned /\ HasEdgeOfWeight(G, W_reaction)

---------------------------------------------------------------------------
(* C10: while a message with a non-empty author is processed, an edge of  *)
(* weight 0.2 is added exactly when the median gap is > 0, a message      *)
(* immediately precedes it in the list, both timestamps parse (and can be *)
(* subtracted), the gap g satisfies 0 <= g <= median gap, and the name of *)
(* the preceding message's author is non-empty, not "user" in any letter  *)
(* case, and not the current author; the edge is the only such edge and   *)
(* goes current author -> previous author.  No temporal edge of the       *)
(* returned graph touches the node "Unknown".                             *)

\* the timestamp string is ISO-8601
Parses(date) == date.kind \in {"naive", "z"}

\* both carry a UTC offset or neither does
SameClock(d1, d2) == (d1.kind = "z") <=> (d2.kind = "z")

\* the name of the author of the message before Cur
PrevName ==
    LET lm == messages[idx]
    IN  IF /\ Truthy(lm.from_name)
           /\ Lower(lm.from_name) # S_user
           /\ lm.from_name # S_Unknown
        THEN lm.from_name
        ELSE IF Truthy(lm.from_id)
             THEN IF lm.from_id \in DOMAIN user_map /\ Truthy(user_map[lm.from_id])
                  THEN user_map[lm.from_id]
                  ELSE IF lm.from_id \in DOMAIN username_map
                       THEN username_map[lm.from_id]
                       ELSE None
             ELSE lm.from_name

TemporalCondition ==
    /\ Truthy(Author(Cur))
    /\ median_delta > 0
    /\ idx >= 1
    /\ Parses(Cur.date)
    /\ Parses(messages[idx].date)
    /\ SameClock(Cur.date, messages[idx].date)
    /\ 0 <= 2 * (Cur.date.t - messages[idx].date.t)
    /\ 2 * (Cur.date.t - messages[idx].date.t) <= median_delta
    /\ Truthy(PrevName)
    /\ Lower(PrevName) # S_user
    /\ PrevName # Author(Cur)

C10_TemporalEdge ==
    /\ [][Processing =>
            LET temporal == SelectSeq(NewEdges, LAMBDA e : e.weight = W_temporal)
            IN  IF TemporalCondition
                THEN temporal = <<Edge(Author(Cur), PrevName, W_temporal)>>
                ELSE temporal = <<>>]_vars
    /\ [](Returned =>
            \A k \in DOMAIN G.edges :
                G.edges[k].weight = W_temporal =>
                    /\ G.edges[k].u # S_Unknown
                    /\ G.edges[k].v # S_Unknown)

\* the first message of three has no author and the timestamps parse: the
\* second message got no temporal edge, the third one got its edge to the
\* second
C10_Witness ==
    /\ Returned
    /\ Len(messages) = 3
    /\ median_delta > 0
    /\ \A k \in DOMAIN messages : Parses(messages[k].date)
    /\ Falsy(Author(messages[1]))
    /\ Author(messages[2]) = S_Alice
    /\ G.edges = <<Edge(S_Bob, S_Alice, W_temporal)>>

---------------------------------------------------------------------------
(* C6: the value compute_median_delta returns is the median of the sample *)
(* it collected: 0 for the empty sample, the middle element in sorted     *)
(* order for an odd size, the mean of the two middle elements for an even *)
(* size; it is >= 0; for the timestamps t, t+10, t+10, t+30 without       *)
(* replies the sample is 10, 0, 20 and the value is 10.                   *)

\* compute_median_delta is about to leave its loop
MedianLeaving == pc = "median" /\ idx = Len(messages)

\* x is the k-th smallest element of the sample s
IsKth(s, k, x) ==
    /\ \E j \in DOMAIN s : s[j] = x
    /\ Cardinality({j \in DOMAIN s : s[j] < x}) < k
    /\ k <= Cardinality({j \in DOMAIN s : s[j] <= x})

\* v is the median of the sample s (half seconds: every element is even)
IsMedian(s, v) ==
    IF s = <<>> THEN v = 0
    ELSE IF Len(s) % 2 = 1
         THEN IsKth(s, (Len(s) + 1) \div 2, v)
         ELSE \E i, j \in DOMAIN s :
                  /\ IsKth(s, Len(s) \div 2, s[i])
                  /\ IsKth(s, Len(s) \div 2 + 1, s[j])
                  /\ 2 * v = s[i] + s[j]

ExampleDates == <<DateNaive(0), DateNaive(10), DateNaive(10), DateNaive(30)>>

IsExample ==
    /\ Len(messages) = Len(ExampleDates)
    /\ \A k \in DOMAIN messages :
          messages[k].date = ExampleDates[k] /\ messages[k].reply_to = 0

C6_Median ==
    [][MedianLeaving =>
          /\ IsMedian(deltas, median')
          /\ median' >= 0
          /\ \A k \in DOMAIN deltas : deltas[k] >= 0
          /\ IsExample => (deltas = <<20, 0, 40>> /\ median' = 20)]_vars

\* a median was returned for a sample of even size whose two middle
\* elements differ
C6_Witness ==
    /\ pc = "median_done"
    /\ Len(deltas) = 2
    /\ deltas[1] < deltas[2]
    /\ 2 * median = deltas[1] + deltas[2]

---------------------------------------------------------------------------
(* C7 *)

\* compute_median_delta is about to process Cur, whose timestamp parses
MedianProcessing == pc = "median" /\ idx < Len(messages) /\ Parses(Cur.date)

\* the sample after a step that takes the delta against the timestamp
\* `date`: nothing is added when that timestamp does not parse or the
\* delta is negative
SampleWith(date) ==
    IF Parses(date) /\ Cur.date.t - date.t >= 0
    THEN Append(deltas, 2 * (Cur.date.t - date.t))
    ELSE deltas

\* the timestamp of the message before Cur; of no message for the first
DateBefore == IF idx >= 1 THEN messages[idx].date ELSE DateNone

\* the two timestamps can be subtracted: none is taken, or both carry a
\* UTC offset, or neither does
Subtractable(date) == Parses(date) => SameClock(Cur.date, date)

MaxEdges == 2

MaxCalls == 2

---------------------------------------------------------------------------
(* metrics.compute_interaction_strengths and compute_node_strengths, edge *)
(* by edge, on any multigraph                                             *)

\* an edge that carries no weight attribute
EdgeNoWeight(u, v) == [u |-> u, v |-> v]

\* totals[n] = totals.get(n, 0.0) + w
Bump(acc, n, w) ==
    [q \in DOMAIN acc \cup {n} |->
        IF q = n THEN (IF n \in DOMAIN acc THEN acc[n] ELSE 0) + w ELSE acc[q]]

\* AddNodeStrength that credits the source of the edge only
AddNodeStrength_SourceOnly(acc, e) ==
    IF SanitizeText(e.u) # <<>> THEN Bump(acc, e.u, WeightOf(e)) ELSE acc

\* lines 108-112: one edge of G.edges(data=True)
AddNodeStrength(acc, e) ==
    LET w == WeightOf(e)
        acc1 == IF SanitizeText(e.u) # <<>> THEN Bump(acc, e.u, w) ELSE acc
    IN  IF SanitizeText(e.v) # <<>> THEN Bump(acc1, e.v, w) ELSE acc1

\* InteractionStrengthsEnter that keeps the map of the call before
InteractionStrengthsEnter_NoReset ==
    /\ pc = "aggregate"
    /\ Len(returned_maps) < MaxCalls
    /\ pc' = "pairs"
    /\ idx' = 0
    /\ UNCHANGED <<messages, user_map, username_map, median_delta,
                   last_message, G, deltas, prev_dt, median, strengths,
                   metricsVars, botVars>>

\* line 95: compute_interaction_strengths is called
InteractionStrengthsEnter ==
    /\ pc = "aggregate"
    /\ Len(returned_maps) < MaxCalls
    /\ pc' = "pairs"
    /\ strengths' = EmptyMap
    /\ idx' = 0
    /\ UNCHANGED <<messages, user_map, username_map, median_delta,
                   last_message, G, deltas, prev_dt, median,
                   metricsVars, botVars>>

\* lines 96-100: one iteration
InteractionStrengthsEdge ==
    /\ pc = "pairs"
    /\ idx < Len(G.edges)
    /\ strengths' = AddStrength(strengths, G.edges[idx + 1])
    /\ idx' = idx + 1
    /\ UNCHANGED <<messages, user_map, username_map, median_delta, pc,
                   last_message, G, deltas, prev_dt, median,
                   metricsVars, botVars>>

\* line 101
InteractionStrengthsReturn ==
    /\ pc = "pairs"
    /\ idx = Len(G.edges)
    /\ returned_maps' = Append(returned_maps, [fn |-> "pairs", map |-> strengths])
    /\ pc' = "aggregate"
    /\ UNCHANGED <<messages, user_map, username_map, median_delta, idx,
                   last_message, G, deltas, prev_dt, median, strengths,
                   totals, metrics, rank, prev_rank, iterations, max_iter,
                   botVars>>

\* line 106: compute_node_strengths is called
NodeStrengthsEnter ==
    /\ pc = "aggregate"
    /\ Len(returned_maps) < MaxCalls
    /\ pc' = "nodes"
    /\ totals' = EmptyMap
    /\ idx' = 0
    /\ UNCHANGED <<messages, user_map, username_map, median_delta,
                   last_message, G, deltas, prev_dt, median, strengths,
                   returned_maps, metrics, rank, prev_rank, iterations,
                   max_iter, botVars>>

\* lines 107-112: one iteration
NodeStrengthsEdge ==
    /\ pc = "nodes"
    /\ idx < Len(G.edges)
    /\ totals' = AddNodeStrength(totals, G.edges[idx + 1])
    /\ idx' = idx + 1
    /\ UNCHANGED <<messages, user_map, username_map, median_delta, pc,
                   last_message, G, deltas, prev_dt, median, strengths,
                   returned_maps, metrics, rank, prev_rank, iterations,
                   max_iter, botVars>>

\* line 113
NodeStrengthsReturn ==
    /\ pc = "nodes"
    /\ idx = Len(G.edges)
    /\ returned_maps' = Append(returned_maps, [fn |-> "nodes", map |-> totals])
    /\ pc' = "aggregate"
    /\ UNCHANGED <<messages, user_map, username_map, median_delta, idx,
                   last_message, G, deltas, prev_dt, median, strengths,
                   totals, metrics, rank, prev_rank, iterations, max_iter,
                   botVars>>

\* a name that sanitize_text empties
S_Dollar == <<"$">>

GraphNodes == {S_Alice, S_Bob, S_Dollar}

\* the edges a graph may hold: weighted or without weight
GraphEdges ==
    {Edge(u, v, W_mention) : u \in GraphNodes, v \in GraphNodes}
    \cup {EdgeNoWeight(u, v) : u \in GraphNodes, v \in GraphNodes}

RECURSIVE EdgeLists(_)
EdgeLists(n) ==
    IF n = 0 THEN {<<>>}
    ELSE {Append(l, e) : l \in EdgeLists(n - 1), e \in GraphEdges}

\* the multigraphs of up to MaxEdges edges, with or without one more node
\* that no edge touches
Graphs ==
    { [nodes |-> {es[k].u : k \in DOMAIN es} \cup {es[k].v : k \in DOMAIN es}
                 \cup extra,
       edges |-> es]
      : es \in UNION {EdgeLists(n) : n \in 0..MaxEdges},
        extra \in {{}, {S_Bob}} }

\* the aggregators are called on any multigraph
InitStrengths ==
    /\ G \in Graphs
    /\ messages = <<>>
    /\ median_delta = 0
    /\ user_map = EmptyCatalog
    /\ username_map = EmptyCatalog
    /\ pc = "aggregate"
    /\ idx = 0
    /\ last_message = 0
    /\ deltas = <<>>
    /\ prev_dt = NoDt
    /\ median = 0
    /\ strengths = EmptyMap
    /\ MetricsIdle
    /\ BotIdle

NextStrengths ==
    \/ InteractionStrengthsEnter
    \/ InteractionStrengthsEdge
    \/ InteractionStrengthsReturn
    \/ NodeStrengthsEnter
    \/ NodeStrengthsEdge
    \/ NodeStrengthsReturn

SpecStrengths == InitStrengths /\ [][NextStrengths]_vars

---------------------------------------------------------------------------
(* Vocabulary of the aggregator properties *)

RECURSIVE SumWeights(_)
SumWeights(es) ==
    IF es = <<>> THEN 0 ELSE WeightOf(Head(es)) + SumWeights(Tail(es))

\* the name survives sanitize_text
Passes(n) == SanitizeText(n) # <<>>

\* the parallel edges u -> v
EdgesFromTo(g, u, v) == SelectSeq(g.edges, LAMBDA e : e.u = u /\ e.v = v)

\* the weight of the edges that leave n plus that of the edges that enter n
IncidentSum(g, n) ==
    SumWeights(SelectSeq(g.edges, LAMBDA e : e.u = n))
    + SumWeights(SelectSeq(g.edges, LAMBDA e : e.v = n))

\* the maps compute_interaction_strengths returned so far
PairMaps ==
    {returned_maps[k].map : k \in {j \in DOMAIN returned_maps :
                                      returned_maps[j].fn = "pairs"}}

\* the maps compute_node_strengths returned so far
NodeMaps ==
    {returned_maps[k].map : k \in {j \in DOMAIN returned_maps :
                                      returned_maps[j].fn = "nodes"}}

RECURSIVE SumOver(_, _)
SumOver(f, S) ==
    IF S = {} THEN 0
    ELSE LET x == CHOOSE y \in S : TRUE IN f[x] + SumOver(f, S \ {x})

PairsAsClaimed(m) ==
    /\ DOMAIN m = {<<G.edges[k].u, G.edges[k].v>> :
                     k \in {j \in DOMAIN G.edges :
                               Passes(G.edges[j].u) /\ Passes(G.edges[j].v)}}
    /\ \A p \in DOMAIN m :
          /\ m[p] = SumWeights(EdgesFromTo(G, p[1], p[2]))
          /\ EdgesFromTo(G, p[1], p[2]) # <<>>
          /\ m[p] >= 0

---------------------------------------------------------------------------
---------------------------------------------------------------------------
(* C12: for every node n of a map compute_node_strengths returned, the    *)
(* total of n is the sum, over the map compute_interaction_strengths      *)
(* returned for the same graph, of the pairs with n as source plus the    *)
(* pairs with n as target.                                                *)
C12_SameFilter ==
    \A mn \in NodeMaps : \A mp \in PairMaps :
        \A n \in DOMAIN mn :
            mn[n] = SumOver(mp, {p \in DOMAIN mp : p[1] = n})
                    + SumOver(mp, {p \in DOMAIN mp : p[2] = n})

---------------------------------------------------------------------------
(* C13: two calls of one aggregator on the same graph return equal maps,  *)
(* and no step of an aggregator changes the graph.                        *)
C13_Idempotent ==
    /\ [](\A i \in DOMAIN returned_maps : \A j \in DOMAIN returned_maps :
             returned_maps[i].fn = returned_maps[j].fn
                 => returned_maps[i].map = returned_maps[j].map)
    /\ [][G' = G]_vars

\* compute_interaction_strengths returned twice, a map that is not empty
C13_Witness ==
    /\ Len(returned_maps) = 2
    /\ returned_maps[1].fn = "pairs"
    /\ returned_maps[2].fn = "pairs"
    /\ returned_maps[2].map # EmptyMap

---------------------------------------------------------------------------
(* metrics.compute_metrics.  The networkx calls are modelled by their     *)
(* contract: the centralities return a value per node; nx.pagerank        *)
(* returns or raises ModuleNotFoundError (no SciPy); louvain_communities  *)
(* returns a partition or raises; nx.diameter raises NetworkXError on a   *)
(* graph that is not connected.                                           *)

\* metrics[k] = v
Put(d, k, v) == [x \in DOMAIN d \cup {k} |-> IF x = k THEN v ELSE d[x]]

\* a quotient a / b, kept exact
Ratio(a, b) == [num |-> a, den |-> b]

\* G.to_undirected(): the nodes an edge joins to n, in either direction
Neighbours(g, n) ==
    {m \in g.nodes : \E k \in DOMAIN g.edges :
        \/ (g.edges[k].u = n /\ g.edges[k].v = m)
        \/ (g.edges[k].v = n /\ g.edges[k].u = m)}

\* the nodes within k steps of S
RECURSIVE Ball(_, _, _)
Ball(g, S, k) ==
    IF k = 0 THEN S
    ELSE Ball(g, S \cup UNION {Neighbours(g, n) : n \in S}, k - 1)

\* nx.is_connected(G.to_undirected())
Connected(g) ==
    \A u \in g.nodes : Ball(g, {u}, Cardinality(g.nodes)) = g.nodes

\* shortest path length in a connected graph
Dist(g, u, v) ==
    CHOOSE k \in 0..Cardinality(g.nodes) :
        /\ v \in Ball(g, {u}, k)
        /\ \A j \in 0..(k - 1) : v \notin Ball(g, {u}, j)

\* nx.diameter of a connected graph: the largest eccentricity
Diameter(g) ==
    CHOOSE d \in 0..Cardinality(g.nodes) :
        /\ \E u \in g.nodes : \E v \in g.nodes : Dist(g, u, v) = d
        /\ \A u \in g.nodes : \A v \in g.nodes : Dist(g, u, v) <= d

\* sum(degrees.values())
RECURSIVE SumDegrees(_, _)
SumDegrees(g, S) ==
    IF S = {} THEN 0
    ELSE LET n == CHOOSE x \in S : TRUE
         IN  Degree(g, n) + SumDegrees(g, S \ {n})

\* nx.degree_centrality: 1 for every node of a graph of one node, else
\* degree / (n - 1)
DegreeCentrality(g) ==
    [n \in g.nodes |->
        IF Cardinality(g.nodes) <= 1 THEN Ratio(1, 1)
        ELSE Ratio(Degree(g, n), Cardinality(g.nodes) - 1)]

\* a float per node, its value left open
PerNode(g, what) == [n \in g.nodes |-> what]

\* lines 63-68
MetricsEnter ==
    /\ pc = "compute_metrics"
    /\ metrics' = Put(Put(EmptyMap, "nodes", Cardinality(G.nodes)),
                      "edges", Len(G.edges))
    /\ pc' = IF Cardinality(G.nodes) = 0 THEN "metrics_returned" ELSE "centrality"
    /\ UNCHANGED <<messages, user_map, username_map, median_delta, idx,
                   last_message, G, deltas, prev_dt, median, strengths,
                   totals, returned_maps, rank, prev_rank, iterations,
                   max_iter, botVars>>

\* lines 69-73
MetricsCentrality ==
    /\ pc = "centrality"
    /\ metrics' =
          Put(Put(Put(Put(metrics,
              "avg_degree", Ratio(SumDegrees(G, G.nodes), Cardinality(G.nodes))),
              "degree_centrality", DegreeCentrality(G)),
              "betweenness_centrality", PerNode(G, "betweenness")),
              "closeness_centrality", PerNode(G, "closeness"))
    /\ pc' = "pagerank"
    /\ UNCHANGED <<messages, user_map, username_map, median_delta, idx,
                   last_message, G, deltas, prev_dt, median, strengths,
                   totals, returned_maps, rank, prev_rank, iterations,
                   max_iter, botVars>>

\* lines 74-80: nx.pagerank, or _simple_pagerank on ModuleNotFoundError
MetricsPagerank ==
    /\ pc = "pagerank"
    /\ \E scipy \in BOOLEAN :
          metrics' = Put(metrics, "pagerank",
                         IF scipy THEN PerNode(G, "nx.pagerank")
                         ELSE PerNode(G, "_simple_pagerank"))
    /\ pc' = "clusters"
    /\ UNCHANGED <<messages, user_map, username_map, median_delta, idx,
                   last_message, G, deltas, prev_dt, median, strengths,
                   totals, returned_maps, rank, prev_rank, iterations,
                   max_iter, botVars>>

\* lines 81-85: the number of communities, or 0 when louvain_communities
\* raises
MetricsClusters ==
    /\ pc = "clusters"
    /\ \E raises \in BOOLEAN : \E count \in 1..Cardinality(G.nodes) :
          metrics' = Put(metrics, "clusters", IF raises THEN 0 ELSE count)
    /\ pc' = "diameter"
    /\ UNCHANGED <<messages, user_map, username_map, median_delta, idx,
                   last_message, G, deltas, prev_dt, median, strengths,
                   totals, returned_maps, rank, prev_rank, iterations,
                   max_iter, botVars>>

\* MetricsDiameter without the try of line 86
MetricsDiameter_Unguarded ==
    /\ pc = "diameter"
    /\ IF Connected(G)
       THEN /\ metrics' = Put(metrics, "diameter", Diameter(G))
            /\ pc' = "metrics_returned"
       ELSE /\ metrics' = metrics
            /\ pc' = "raised"
    /\ UNCHANGED <<messages, user_map, username_map, median_delta, idx,
                   last_message, G, deltas, prev_dt, median, strengths,
                   totals, returned_maps, rank, prev_rank, iterations,
                   max_iter, botVars>>

\* lines 86-90
MetricsDiameter ==
    /\ pc = "diameter"
    /\ metrics' = Put(metrics, "diameter",
                      IF Connected(G) THEN Diameter(G) ELSE 0)
    /\ pc' = "metrics_returned"
    /\ UNCHANGED <<messages, user_map, username_map, median_delta, idx,
                   last_message, G, deltas, prev_dt, median, strengths,
                   totals, returned_maps, rank, prev_rank, iterations,
                   max_iter, botVars>>

\* compute_metrics is called on any multigraph
InitMetrics ==
    /\ G \in Graphs
    /\ messages = <<>>
    /\ median_delta = 0
    /\ user_map = EmptyCatalog
    /\ username_map = EmptyCatalog
    /\ pc = "compute_metrics"
    /\ idx = 0
    /\ last_message = 0
    /\ deltas = <<>>
    /\ prev_dt = NoDt
    /\ median = 0
    /\ strengths = EmptyMap
    /\ MetricsIdle
    /\ BotIdle

NextMetrics ==
    \/ MetricsEnter
    \/ MetricsCentrality
    \/ MetricsPagerank
    \/ MetricsClusters
    \/ MetricsDiameter

SpecMetrics == InitMetrics /\ [][NextMetrics]_vars

---------------------------------------------------------------------------
(* C14: compute_metrics never raises; what it returns for the empty graph *)
(* has exactly the keys nodes and edges, both 0; for a graph with a node  *)
(* it has these and avg_degree, the three centralities, pagerank,         *)
(* clusters and diameter, where avg_degree = 2 * edges / nodes, clusters  *)
(* is 0 when community detection failed, and diameter is 0 when the       *)
(* undirected graph is not connected or has a single node.                *)

MetricKeys ==
    {"nodes", "edges", "avg_degree", "degree_centrality",
     "betweenness_centrality", "closeness_centrality", "pagerank",
     "clusters", "diameter"}

C14_MetricsAlwaysReturned ==
    /\ pc # "raised"
    /\ pc = "metrics_returned" =>
          /\ metrics["nodes"] = Cardinality(G.nodes)
          /\ metrics["edges"] = Len(G.edges)
          /\ IF G.nodes = {}
             THEN /\ DOMAIN metrics = {"nodes", "edges"}
                  /\ metrics["nodes"] = 0
                  /\ metrics["edges"] = 0
             ELSE /\ DOMAIN metrics = MetricKeys
                  /\ metrics["avg_degree"].num * Cardinality(G.nodes)
                        = 2 * Len(G.edges) * metrics["avg_degree"].den
                  /\ \A k \in {"degree_centrality", "betweenness_centrality",
                                "closeness_centrality", "pagerank"} :
                        DOMAIN metrics[k] = G.nodes
                  /\ metrics["clusters"] \in 0..Cardinality(G.nodes)
                  /\ metrics["diameter"] \in 0..Cardinality(G.nodes)
                  /\ (~Connected(G) \/ Cardinality(G.nodes) = 1)
                        => metrics["diameter"] = 0

\* compute_metrics returned for a graph that is not connected, after
\* community detection failed
C14_Witness ==
    /\ pc = "metrics_returned"
    /\ Cardinality(G.nodes) = 3
    /\ ~Connected(G)
    /\ metrics["clusters"] = 0
    /\ metrics["diameter"] = 0
    /\ metrics["avg_degree"] = Ratio(4, 3)

---------------------------------------------------------------------------
(* metrics._simple_pagerank.  The floats are modelled by exact fractions: *)
(* a rank dict is [num, den], the value of node v being num[v] / den.     *)

\* alpha = 0.85 = AlphaNum / AlphaDen
AlphaNum == 17

AlphaDen == 20

\* tol = 1.0e-06 = 1 / TolInverse
TolInverse == 1000000

\* the default of max_iter
DefaultMaxIter == 100

\* the model follows the loop for at most this many iterations
MaxRankIter == 2

RECURSIVE GCD(_, _)
GCD(a, b) == IF b = 0 THEN a ELSE GCD(b, a % b)

LCM(a, b) == (a * b) \div GCD(a, b)

\* the greatest common divisor of the numbers of S, 0 for none
RECURSIVE GcdOf(_)
GcdOf(S) ==
    IF S = {} THEN 0
    ELSE LET x == CHOOSE y \in S : TRUE IN GCD(x, GcdOf(S \ {x}))

\* the least common multiple of the numbers of S, 1 for none
RECURSIVE LcmOf(_)
LcmOf(S) ==
    IF S = {} THEN 1
    ELSE LET x == CHOOSE y \in S : TRUE IN LCM(x, LcmOf(S \ {x}))

\* lines 34-39: out_weight[u], in tenths
OutWeight(g, u) == SumWeights(SelectSeq(g.edges, LAMBDA e : e.u = u))

\* the unit in which every edge weight of g is a whole number
WeightUnit(g) ==
    GcdOf({WeightOf(g.edges[k]) : k \in DOMAIN g.edges})

\* a common denominator of the shares weight / out_weight[u]
ShareDen(g) ==
    LcmOf({OutWeight(g, u) \div WeightUnit(g) :
              u \in {x \in g.nodes : OutWeight(g, x) # 0}})

\* by how much one iteration multiplies the denominator of the ranks
Step(g) == AlphaDen * Cardinality(g.nodes) * ShareDen(g)

RECURSIVE SumNum(_, _)
SumNum(f, S) ==
    IF S = {} THEN 0
    ELSE LET x == CHOOSE y \in S : TRUE IN f[x] + SumNum(f, S \ {x})

\* lines 43-45, times the new denominator and without the division by n
DanglingNum(g, prev) ==
    AlphaNum * SumNum(prev.num, {u \in g.nodes : OutWeight(g, u) = 0})
             * ShareDen(g)

\* lines 48-51: what the in-edges of v add to rank_v
RECURSIVE InEdgesNum(_, _, _, _)
InEdgesNum(g, prev, v, es) ==
    IF es = <<>> THEN 0
    ELSE LET e == Head(es)
             rest == InEdgesNum(g, prev, v, Tail(es))
         IN  IF e.v = v /\ OutWeight(g, e.u) # 0
             THEN AlphaNum * prev.num[e.u] * Cardinality(g.nodes)
                    * ((WeightOf(e) * ShareDen(g)) \div OutWeight(g, e.u))
                  + rest
             ELSE rest

\* NextRank that drops the rank of the dangling nodes
NextRank_NoDangling(g, prev) ==
    [num |-> [v \in g.nodes |->
                 (AlphaDen - AlphaNum) * prev.den * ShareDen(g)
                 + InEdgesNum(g, prev, v, g.edges)],
     den |-> prev.den * Step(g)]

\* lines 42-52: the rank dict after one iteration
NextRank(g, prev) ==
    [num |-> [v \in g.nodes |->
                 (AlphaDen - AlphaNum) * prev.den * ShareDen(g)
                 + DanglingNum(g, prev)
                 + InEdgesNum(g, prev, v, g.edges)],
     den |-> prev.den * Step(g)]

Abs(x) == IF x < 0 THEN 0 - x ELSE x

\* line 55: err, times the denominator of cur
RECURSIVE ErrNum(_, _, _)
ErrNum(prev, cur, S) ==
    IF S = {} THEN 0
    ELSE LET u == CHOOSE y \in S : TRUE
         IN  Abs(cur.num[u] - prev.num[u] * (cur.den \div prev.den))
             + ErrNum(prev, cur, S \ {u})

\* line 56: err < tol
Converged(prev, cur) ==
    ErrNum(prev, cur, DOMAIN cur.num) <= (cur.den - 1) \div TolInverse

\* lines 21-39: the call, up to the loop
RankEnter ==
    /\ pc = "_simple_pagerank"
    /\ IF G.nodes = {}
       THEN /\ rank' = [num |-> EmptyMap, den |-> 1]
            /\ pc' = "rank_returned"
       ELSE /\ rank' = [num |-> [u \in G.nodes |-> 1],
                        den |-> Cardinality(G.nodes)]
            /\ pc' = "rank_loop"
    /\ UNCHANGED <<messages, user_map, username_map, median_delta, idx,
                   last_message, G, deltas, prev_dt, median, strengths,
                   totals, returned_maps, metrics, prev_rank, iterations,
                   max_iter, botVars>>

\* lines 41-57: one iteration of `for _ in range(max_iter)`
RankIteration ==
    /\ pc = "rank_loop"
    /\ iterations < max_iter
    /\ iterations < MaxRankIter
    /\ prev_rank' = rank
    /\ rank' = NextRank(G, rank)
    /\ iterations' = iterations + 1
    /\ pc' = IF Converged(rank, rank') THEN "rank_returned" ELSE pc
    /\ UNCHANGED <<messages, user_map, username_map, median_delta, idx,
                   last_message, G, deltas, prev_dt, median, strengths,
                   totals, returned_maps, metrics, max_iter, botVars>>

\* lines 41 and 59: range(max_iter) is exhausted
RankExhausted ==
    /\ pc = "rank_loop"
    /\ iterations = max_iter
    /\ pc' = "rank_returned"
    /\ UNCHANGED <<messages, user_map, username_map, median_delta, idx,
                   last_message, G, deltas, prev_dt, median, strengths,
                   totals, returned_maps, metrics, rank, prev_rank,
                   iterations, max_iter, botVars>>

\* _simple_pagerank is called on any multigraph, with the default max_iter
\* or a small one
InitRank ==
    /\ G \in Graphs
    /\ max_iter \in 0..MaxRankIter \cup {DefaultMaxIter}
    /\ messages = <<>>
    /\ median_delta = 0
    /\ user_map = EmptyCatalog
    /\ username_map = EmptyCatalog
    /\ pc = "_simple_pagerank"
    /\ idx = 0
    /\ last_message = 0
    /\ deltas = <<>>
    /\ prev_dt = NoDt
    /\ median = 0
    /\ strengths = EmptyMap
    /\ totals = EmptyMap
    /\ returned_maps = <<>>
    /\ metrics = EmptyMap
    /\ rank = EmptyMap
    /\ prev_rank = EmptyMap
    /\ iterations = 0
    /\ BotIdle

NextRankStep == RankEnter \/ RankIteration \/ RankExhausted

SpecRank == InitRank /\ [][NextRankStep]_vars

---------------------------------------------------------------------------
(* C15: for a graph with a node, the ranks sum to 1 when the loop is      *)
(* entered and after every iteration; the loop goes on only while no      *)
(* iteration had an L1 change below 1e-6, and _simple_pagerank returns    *)
(* after the first such iteration or after max_iter (default 100)         *)
(* iterations, never more.                                                *)
C15_RankSumsToOne ==
    (pc \in {"rank_loop", "rank_returned"} /\ G.nodes # {}) =>
        /\ SumNum(rank.num, G.nodes) = rank.den
        /\ \A v \in G.nodes : rank.num[v] > 0
        /\ iterations <= max_iter
        /\ (pc = "rank_loop" /\ iterations > 0) => ~Converged(prev_rank, rank)
        /\ pc = "rank_returned" =>
              \/ iterations = max_iter
              \/ (iterations > 0 /\ Converged(prev_rank, rank))

\* two iterations were made on a graph with a dangling node and two
\* out-edges of different weight, and the ranks are no longer uniform
C15_Witness ==
    /\ pc = "rank_returned"
    /\ iterations = 2
    /\ G.edges = <<Edge(S_Alice, S_Bob, W_mention), EdgeNoWeight(S_Alice, S_Dollar)>>
    /\ rank.num[S_Dollar] > rank.num[S_Bob]
    /\ rank.num[S_Bob] > rank.num[S_Alice]

---------------------------------------------------------------------------
(* C16: neither compute_median_delta nor build_graph aborts, whatever the *)
(* timestamps of the messages are.                                        *)
C16_NeverAborts == pc # "raised"

---------------------------------------------------------------------------
(* Signals: the interactions of the message being processed that the      *)
(* builder accepts                                                        *)

\* the identity of the author of a message: the raw name, or for a missing
\* or placeholder name the catalog entry of the author id
NameOf(m) ==
    IF Truthy(m.from_name) /\ Lower(m.from_name) # S_user /\ m.from_name # S_Unknown
    THEN m.from_name
    ELSE IF Falsy(m.from_id) THEN m.from_name
         ELSE IF m.from_id \in DOMAIN user_map /\ Truthy(user_map[m.from_id])
              THEN user_map[m.from_id]
              ELSE IF m.from_id \in DOMAIN username_map
                   THEN username_map[m.from_id]
                   ELSE None

\* the id a reference carries: the string itself, or the id / from_id field
\* of a structured reference; None when it has neither
RefId(r) ==
    IF r.tag = "str" THEN r.s
    ELSE IF r.tag = "dict"
         THEN (IF Truthy(r.id) THEN r.id ELSE r.from_id)
         ELSE None

\* the name the catalogs give for a reference, None when they give none
FoundName(r) ==
    LET id == RefId(r)
        handle == IF Truthy(id) THEN LStrip(id, {"@"}) ELSE None
    IN  IF Falsy(id) THEN None
        ELSE IF id \in DOMAIN user_map /\ Truthy(user_map[id])
             THEN user_map[id]
             ELSE IF handle \in DOMAIN username_map /\ Truthy(username_map[handle])
                  THEN username_map[handle]
                  ELSE None

\* a name that may be the far end of an edge of the author's message
Distinct(name, author) ==
    Truthy(name) /\ Lower(name) # S_user /\ name # author

ReplySignals(m, author) ==
    LET hits == {k \in DOMAIN messages : messages[k].id = m.reply_to}
    IN  IF m.reply_to # 0 /\ hits # {}
        THEN LET last == CHOOSE k \in hits : \A j \in hits : j <= k
             IN  IF Distinct(NameOf(messages[last]), author) THEN 1 ELSE 0
        ELSE 0

MentionSignals(m, author) ==
    LET words == Split(m.text)
        nick(k) == RStrip(Tail(words[k]), MentionPunctuation)
        name(k) == IF nick(k) \in DOMAIN username_map
                   THEN username_map[nick(k)] ELSE nick(k)
    IN  Cardinality({k \in DOMAIN words :
                        /\ words[k][1] = "@"
                        /\ Lower(name(k)) # S_user
                        /\ name(k) # author})

ForwardSignals(m, author) ==
    IF /\ Distinct(FoundName(m.forwarded_from), author)
       /\ FoundName(m.forwarded_from) # S_Unknown
    THEN 1 ELSE 0

ReactionSignals(m, author) ==
    Cardinality({k \in DOMAIN m.reactions :
                    /\ Distinct(FoundName(m.reactions[k].actor), author)
                    /\ FoundName(m.reactions[k].actor) # S_Unknown})

Signals(m, author) ==
    ReplySignals(m, author) + MentionSignals(m, author)
    + ForwardSignals(m, author) + ReactionSignals(m, author)
    + (IF TemporalCondition THEN 1 ELSE 0)

\* the edges of g that touch a node of ns
EdgesAt(g, ns) ==
    {k \in DOMAIN g.edges : g.edges[k].u \in ns \/ g.edges[k].v \in ns}

---------------------------------------------------------------------------
(* C17: while a message is processed every signal of it adds one edge at  *)
(* the end of the edge list and the edges that were there stay as they    *)
(* are, so that equal signals give parallel edges; a message without      *)
(* author adds none; pruning removes exactly the edges that touch a       *)
(* removed node.                                                          *)
C17_OneEdgePerSignal ==
    /\ [][Processing =>
            /\ SubSeq(G'.edges, 1, Len(G.edges)) = G.edges
            /\ Len(NewEdges) = IF Truthy(NameOf(Cur))
                               THEN Signals(Cur, NameOf(Cur))
                               ELSE 0]_vars
    /\ [][(pc = "build" /\ pc' = "returned") =>
            Len(G'.edges) = Len(G.edges)
                            - Cardinality(EdgesAt(G, G.nodes \ G'.nodes))]_vars

\* the returned graph holds two equal parallel edges
C17_Witness ==
    /\ Returned
    /\ \E i \in DOMAIN G.edges : \E j \in DOMAIN G.edges :
          i < j /\ G.edges[i] = G.edges[j]

---------------------------------------------------------------------------
(* The tests that decide whether a resolved name is used, role by role *)

\* line 72: the message is processed
AuthorAccepted(author) == Truthy(author)

\* line 88, without the comparison with the author
TargetAccepted(target) == Truthy(target) /\ Lower(target) # S_user

\* line 130, without the comparison with the author
PrevAccepted(prev_author) == Truthy(prev_author) /\ Lower(prev_author) # S_user

(* C18: for every message M the loop has gone through, the identity M     *)
(* gets as current author, as reply target and as previous message is the *)
(* same, and M is taken as unresolved in one of the three roles exactly   *)
(* when it is in the others.                                              *)
C18_SameInEveryRole ==
    \A k \in 1..idx :
        LET M == messages[k]
        IN  /\ Author(M) = ReplyTarget(M)
            /\ Author(M) = PrevAuthor(M)
            /\ AuthorAccepted(Author(M)) <=> TargetAccepted(ReplyTarget(M))
            /\ AuthorAccepted(Author(M)) <=> PrevAccepted(PrevAuthor(M))

---------------------------------------------------------------------------
(* C19: while a message is processed, a forward edge is added only for a  *)
(* forward source the catalogs know, and then to the name they give; a    *)
(* reaction edge comes only from the name the catalogs give for an actor  *)
(* of the message, at most one per such actor; the nodes that appear are  *)
(* the ends of the new edges, none is a reference the catalogs do not     *)
(* know; and the step raises for no other reason than the timestamps.     *)
C19_UnknownReferenceAddsNothing ==
    [][(Processing /\ Truthy(Author(Cur))) =>
          LET forward == SelectSeq(NewEdges, LAMBDA e : e.weight = W_forward)
              reaction == SelectSeq(NewEdges, LAMBDA e : e.weight = W_reaction)
              known == {k \in DOMAIN Cur.reactions :
                           Truthy(FoundName(Cur.reactions[k].actor))}
          IN  /\ Falsy(FoundName(Cur.forwarded_from)) => forward = <<>>
              /\ \A k \in DOMAIN forward :
                    forward[k].v = FoundName(Cur.forwarded_from)
              /\ Len(reaction) <= Cardinality(known)
              /\ \A k \in DOMAIN reaction :
                    \E j \in known :
                        reaction[k].u = FoundName(Cur.reactions[j].actor)
              /\ G'.nodes = G.nodes \cup {NewEdges[k].u : k \in DOMAIN NewEdges}
                                    \cup {NewEdges[k].v : k \in DOMAIN NewEdges}
              /\ pc' = "raised" => TemporalRaises(Cur)]_vars

\* a message with a structured forward source that has no id was processed
\* and left the graph empty; the next one, forwarded from @bob, added its
\* edge to the name of bob
C19_Witness ==
    /\ pc = "build"
    /\ idx = 2
    /\ messages[1].forwarded_from = DictRef(None, None)
    /\ messages[2].forwarded_from = StrRef(S_at_bob)
    /\ Author(messages[1]) = S_Alice
    /\ G.edges = <<Edge(S_Alice, S_Bob, W_forward)>>
    /\ G.nodes = {S_Alice, S_Bob}

---------------------------------------------------------------------------
(* bot.handle_document and bot.process_document on the asyncio event      *)
(* loop.  One coroutine runs at a time, from one await to the next; at an *)
(* await the loop is free to resume any coroutine that is ready.  Upload  *)
(* i is the i-th document message; what is computed from it carries the   *)
(* tag i.                                                                 *)

MaxUploads == 2

Uploads == 1..MaxUploads

\* the positions of process_document between its first line and its first
\* await, in order, and the locals each one binds
CoreOrder == <<"loaded", "parsed", "median", "built", "metrics", "strengths">>

CoreLocals ==
    [loaded |-> {"data"},
     parsed |-> {"messages", "users", "user_map", "username_map"},
     median |-> {"median"},
     built |-> {"G"},
     metrics |-> {"metrics"},
     strengths |-> {"strengths"}]

\* what each local is computed from
ComputedFrom ==
    [messages |-> "data", users |-> "data", user_map |-> "users",
     username_map |-> "users", median |-> "messages", G |-> "messages",
     metrics |-> "G", strengths |-> "G"]

Position(stage) == CHOOSE k \in DOMAIN CoreOrder : CoreOrder[k] = stage

\* the directories that exist
LiveDirs ==
    {tasks[j].workdir : j \in {u \in Uploads : tasks[u].workdir # 0}}

\* d/name
Path(d, name) == <<d, name>>

\* open(path).write(...)
WriteFile(fs, path, tag) ==
    [q \in DOMAIN fs \cup {path} |-> IF q = path THEN tag ELSE fs[q]]

\* os.remove of every file of d
RemoveDir(fs, d) == [q \in {x \in DOMAIN fs : x[1] # d} |-> fs[q]]

SetTask(i, field, value) == [tasks EXCEPT ![i][field] = value]

botUnchanged ==
    UNCHANGED <<messages, user_map, username_map, median_delta, pc, idx,
                last_message, G, deltas, prev_dt, median, strengths,
                metricsVars>>

\* lines 30-39: the handler starts; a file that is too big is refused,
\* else the receipt is sent (await message.reply)
HandlerStart(i) ==
    /\ running = 0
    /\ tasks[i].pc = "new"
    /\ \E too_big \in BOOLEAN :
          tasks' = SetTask(i, "pc", IF too_big THEN "refused" ELSE "received")
    /\ UNCHANGED <<running, files, sent>>
    /\ botUnchanged

\* lines 40-42: tempfile.mkdtemp makes a directory that did not exist;
\* await message.document.download
HandlerMkdtemp(i) ==
    /\ running = 0
    /\ tasks[i].pc = "received"
    /\ \E d \in Uploads \ LiveDirs :
          tasks' = [tasks EXCEPT ![i].workdir = d, ![i].pc = "downloading"]
    /\ UNCHANGED <<running, files, sent>>
    /\ botUnchanged

\* lines 43-55: the download failed (reply, rmdir, return), or the file is
\* there and the task is created
HandlerDownloaded(i) ==
    /\ running = 0
    /\ tasks[i].pc = "downloading"
    /\ \E ok \in BOOLEAN :
          IF ok
          THEN /\ files' = WriteFile(files, Path(tasks[i].workdir, "upload"), i)
               /\ tasks' = SetTask(i, "pc", "created")
          ELSE /\ files' = files
               /\ tasks' = [tasks EXCEPT ![i].workdir = 0, ![i].pc = "failed"]
    /\ UNCHANGED <<running, sent>>
    /\ botUnchanged

\* line 59: the loop starts the task; load_chat(file_path)
ProcessStart(i) ==
    /\ running = 0
    /\ tasks[i].pc = "created"
    /\ running' = i
    /\ tasks' = [tasks EXCEPT
                    ![i].pc = "loaded",
                    ![i].locals = [n \in {"data"} |->
                                      files[Path(tasks[i].workdir, "upload")]]]
    /\ UNCHANGED <<files, sent>>
    /\ botUnchanged

\* the upload a value computed from the local n of task i comes from; n may
\* be bound in the stage that is being taken
RECURSIVE TagOf(_, _)
TagOf(i, n) ==
    IF n \in DOMAIN tasks[i].locals
    THEN tasks[i].locals[n]
    ELSE TagOf(i, ComputedFrom[n])

\* the locals after the stage `stage` of upload i (line 71: del data)
Bind(i, stage) ==
    [n \in (DOMAIN tasks[i].locals \cup CoreLocals[stage]) \ {"data"} |->
        IF n \in CoreLocals[stage]
        THEN TagOf(i, ComputedFrom[n])
        ELSE tasks[i].locals[n]]

\* CoreStage with an await between two stages
CoreStage_Suspending(i) ==
    /\ running \in {0, i}
    /\ tasks[i].pc \in {CoreOrder[k] : k \in 1..(Len(CoreOrder) - 1)}
    /\ LET next == CoreOrder[Position(tasks[i].pc) + 1]
       IN  tasks' = [tasks EXCEPT ![i].pc = next, ![i].locals = Bind(i, next)]
    /\ running' = 0
    /\ UNCHANGED <<files, sent>>
    /\ botUnchanged

\* lines 60-76: parse, median, build_graph, compute_metrics,
\* compute_interaction_strengths, one after the other without an await
CoreStage(i) ==
    /\ running = i
    /\ tasks[i].pc \in {CoreOrder[k] : k \in 1..(Len(CoreOrder) - 1)}
    /\ LET next == CoreOrder[Position(tasks[i].pc) + 1]
       IN  tasks' = [tasks EXCEPT ![i].pc = next, ![i].locals = Bind(i, next)]
    /\ UNCHANGED <<running, files, sent>>
    /\ botUnchanged

\* lines 78-85: the three files are written into workdir, graph.png is
\* opened and sent (the first await of the task)
Render(i) ==
    /\ running = i
    /\ tasks[i].pc = "strengths"
    /\ LET d == tasks[i].workdir
           tag == tasks[i].locals["G"]
           fs == WriteFile(WriteFile(WriteFile(files,
                     Path(d, "graph.png"), tag),
                     Path(d, "graph.html"), tag),
                     Path(d, "report.pdf"), tag)
       IN  /\ files' = fs
           /\ sent' = sent \cup {[chat |-> i, doc |-> "graph.png",
                                  tag |-> fs[Path(d, "graph.png")]]}
    /\ tasks' = SetTask(i, "pc", "await_graph")
    /\ running' = 0
    /\ botUnchanged

\* lines 86-87: resumed; graph.html is opened and sent
SendHtml(i) ==
    /\ running = 0
    /\ tasks[i].pc = "await_graph"
    /\ sent' = sent \cup {[chat |-> i, doc |-> "graph.html",
                           tag |-> files[Path(tasks[i].workdir, "graph.html")]]}
    /\ tasks' = SetTask(i, "pc", "await_html")
    /\ UNCHANGED <<running, files>>
    /\ botUnchanged

\* lines 88-89: resumed; report.pdf is opened and sent
SendPdf(i) ==
    /\ running = 0
    /\ tasks[i].pc = "await_html"
    /\ sent' = sent \cup {[chat |-> i, doc |-> "report.pdf",
                           tag |-> files[Path(tasks[i].workdir, "report.pdf")]]}
    /\ tasks' = SetTask(i, "pc", "await_pdf")
    /\ UNCHANGED <<running, files>>
    /\ botUnchanged

\* lines 90-100: resumed; the files and the directory are removed, the
\* locals deleted
Cleanup(i) ==
    /\ running = 0
    /\ tasks[i].pc = "await_pdf"
    /\ files' = RemoveDir(files, tasks[i].workdir)
    /\ tasks' = [tasks EXCEPT ![i].pc = "finished", ![i].workdir = 0,
                              ![i].locals = EmptyMap]
    /\ UNCHANGED <<running, sent>>
    /\ botUnchanged

\* the uploads have arrived, no handler has started
InitBot ==
    /\ tasks = [i \in Uploads |-> [pc |-> "new", workdir |-> 0, locals |-> EmptyMap]]
    /\ running = 0
    /\ files = EmptyMap
    /\ sent = {}
    /\ messages = <<>>
    /\ median_delta = 0
    /\ user_map = EmptyCatalog
    /\ username_map = EmptyCatalog
    /\ pc = "bot"
    /\ idx = 0
    /\ last_message = 0
    /\ G = EmptyGraph
    /\ deltas = <<>>
    /\ prev_dt = NoDt
    /\ median = 0
    /\ strengths = EmptyMap
    /\ MetricsIdle

NextBot ==
    \E i \in Uploads :
        \/ HandlerStart(i)
        \/ HandlerMkdtemp(i)
        \/ HandlerDownloaded(i)
        \/ ProcessStart(i)
        \/ CoreStage(i)
        \/ Render(i)
        \/ SendHtml(i)
        \/ SendPdf(i)
        \/ Cleanup(i)

SpecBot == InitBot /\ [][NextBot]_vars

---------------------------------------------------------------------------
(* C20: while one upload's task is between the load of the chat and its   *)
(* first await, it is the coroutine the loop runs and no other upload's   *)
(* handler or task takes a step; every local of a task was computed from  *)
(* the task's own upload; two uploads never have the same directory;      *)
(* every file of a task's directory, and every document sent to a chat,   *)
(* comes from that upload.                                                *)

InCore(i) == tasks[i].pc \in {CoreOrder[k] : k \in DOMAIN CoreOrder}

C20_CoreNotInterleaved ==
    /\ [](\A i \in Uploads :
            /\ InCore(i) => running = i
            /\ \A n \in DOMAIN tasks[i].locals : tasks[i].locals[n] = i
            /\ \A j \in Uploads :
                  (i # j /\ tasks[i].workdir # 0)
                      => tasks[i].workdir # tasks[j].workdir
            /\ \A q \in DOMAIN files :
                  q[1] = tasks[i].workdir => files[q] = i)
    /\ [](\A m \in sent : m.tag = m.chat)
    /\ [][\A i \in Uploads :
            InCore(i) => \A j \in Uploads \ {i} : tasks'[j] = tasks[j]]_vars

\* upload 1 is in the middle of its core while upload 2 is suspended at
\* the first await of its task
C20_Witness ==
    /\ tasks[1].pc = "built"
    /\ tasks[2].pc = "await_graph"
    /\ running = 1

===========================================================================
